---- MODULE Spec2Model ----
(* A state-machine model of HandleMap<V> (src/src/lib.rs): a growable      *)
(* storage vector, a parallel vector of 16-bit generations, and a          *)
(* name -> Handle hash map.  Vector position i of the source is position   *)
(* i + 1 of the TLA+ sequence.  An Option is a sequence of length <= 1.    *)
EXTENDS Integers, Sequences, FiniteSets, TLC

\* generations, keys_to_indices, storage: the fields of HandleMap.
\* slots:  per stored value, what its inserter knows of it (see Slot).
\* popped: the handles insert returned for the values popped so far.
\* last:   the call made last (see Call).
\* capacity: what the constructor was asked to reserve, and the room
\*         storage and keys_to_indices have allocated (see Capacity).
VARIABLES generations, keys_to_indices, storage, slots, popped, last,
          capacity

\* What a caller can observe of the map, and what it remembers of it.
api == <<generations, keys_to_indices, storage, slots, popped, last>>

vars == <<api, capacity>>

\* ------------------------------------------------------------ bounds
\* Largest number of values held in storage at once.
MaxLen == 2
\* Largest number of generation bumps made in a run (far below the 2^16
\* bumps of one index that wrap its counter).
MaxBumps == 2

\* The names and the values the caller draws its arguments from.
Names == {"a", "b"}
Values == {1, 2}

\* ------------------------------------------------------------ types
\* type Generation = u16: the counter has 2^16 values.
GenModulus == 65536

\* struct Handle { index, generation }
Handle(i, g) == [index |-> i, generation |-> g]

\* The handles a caller may present: issued by this store, or by another
\* store of the same type (index MaxLen is never allocated here); among
\* them the one each allocated index lets through at present.
Handles ==
    {Handle(i, g) : i \in 0..MaxLen, g \in 0..MaxBumps}
        \cup {Handle(i - 1, generations[i]) : i \in DOMAIN generations}

None == <<>>
Some(x) == <<x>>

\* ------------------------------------------------------------ helpers
\* assert_alive with `>` for `!=`: only a handle newer than the slot
\* panics, a stale one passes.
AssertAlivePassesStale(h) ==
    /\ h.index < Len(generations)
    /\ h.generation <= generations[h.index + 1]

\* HandleMap::assert_alive: generations[index.index] panics when the index
\* is out of range of generations; otherwise a generation mismatch panics.
AssertAlivePasses(h) ==
    /\ h.index < Len(generations)
    /\ h.generation = generations[h.index + 1]

\* An access without its assert_alive: only the range of storage counts.
AccessOkUnasserted(h) == h.index < Len(storage)

\* index / index_mut / the first two statements of replace: assert_alive,
\* then storage[index.index], which panics when out of range of storage.
AccessOk(h) ==
    /\ AssertAlivePasses(h)
    /\ h.index < Len(storage)

\* bump_gen without its `+= 1`: a reused index keeps its generation.
BumpGenValueKept(index) ==
    IF Len(generations) > index
        THEN generations[index + 1]
        ELSE 0

\* The generation bump_gen returns for `index` (u16 arithmetic).
BumpGenValue(index) ==
    IF Len(generations) > index
        THEN (generations[index + 1] + 1) % GenModulus
        ELSE 0

\* bump_gen without its push(0): a new index gets no generation entry.
BumpGenNoPush(index) ==
    IF Len(generations) > index
        THEN [generations EXCEPT ![index + 1] = BumpGenValue(index)]
        ELSE generations

\* The generations vector after bump_gen(index).
BumpGen(index) ==
    IF Len(generations) > index
        THEN [generations EXCEPT ![index + 1] = BumpGenValue(index)]
        ELSE Append(generations, 0)

\* How far a generation is from 0, counting back from 0 for one that
\* has yet to wrap.
FromZero(g) == IF 2 * g >= GenModulus THEN g - GenModulus ELSE g

\* The number of bumps made so far: each `+= 1` of bump_gen adds one.
RECURSIVE SumSeq(_)
SumSeq(s) == IF s = <<>> THEN 0 ELSE FromZero(s[1]) + SumSeq(Tail(s))

\* Whether bump_gen(index) stays within the modelled number of bumps.
BumpWithinBound(index) ==
    Len(generations) > index => SumSeq(generations) < MaxBumps

\* How `generations[index] += 1` of bump_gen can end.  On the largest
\* u16 the addition overflows: a build with overflow checks (the debug
\* profile) panics, one without (the release profile) wraps to 0.
BumpOutcomes(index) ==
    IF Len(generations) > index /\ generations[index + 1] = GenModulus - 1
        THEN {"Wrap", "Panic"}
        ELSE {"Ok"}

\* entry(key).or_insert(handle) for insert: the first write wins.
MapInsertKeepFirst(m, k, h) ==
    [n \in (DOMAIN m) \cup {k} |-> IF n \in DOMAIN m THEN m[n] ELSE h]

\* HashMap::insert(key, handle): last write wins.
MapInsert(m, k, h) ==
    [n \in (DOMAIN m) \cup {k} |-> IF n = k THEN h ELSE m[n]]

\* pop() without its remove(&key): the entry stays.
MapRemoveSkipped(m, k) == m

\* pop() calling clear() for remove(&key): every entry goes.
MapRemoveAll(m, k) == [n \in {} |-> m[n]]

\* HashMap::remove(key).
MapRemove(m, k) ==
    [n \in (DOMAIN m) \ {k} |-> m[n]]

\* Vec::pop on a non-empty vector: the vector without its last element,
\* and the element it returns.
Front(s) == SubSeq(s, 1, Len(s) - 1)

\* A pop that takes the element at the front (remove(0)) for the last.
First(s) == s[1]

Last(s) == s[Len(s)]

\* insert reading storage.len() after the push: the handle is one off.
InsertHandleAfterPush(index) == Handle(index + 1, BumpGenValue(index))

\* The handle insert builds for the slot it is about to fill.
InsertHandle(index) == Handle(index, BumpGenValue(index))

\* replace that bumps before it swaps and hands back the new value.
ReplacedValueNew(h, value) == value

\* The value replace returns: the one std::mem::replace takes out.
ReplacedValue(h, value) == storage[h.index + 1]

\* A write that lands on storage[0] whatever the index.
WriteSlotFirst(s, index, value) == [s EXCEPT ![1] = value]

\* storage[index] = value.
WriteSlot(s, index, value) == [s EXCEPT ![index + 1] = value]

\* What the caller knows of a stored value: the name and the handle it
\* was inserted with, and the value it last gave it.
Slot(key, h, value) == [key |-> key, handle |-> h, value |-> value]

\* The record of the call made last: its arguments and what it returned.
Call(op, key, handle, value, result, retVal, retHandle) ==
    [op |-> op, key |-> key, handle |-> handle, value |-> value,
     result |-> result, retVal |-> retVal, retHandle |-> retHandle]

\* The allocation state of the two collections built with a capacity.
Capacity(requested, ofStorage, ofKeys) ==
    [requested |-> requested, storage |-> ofStorage, keys |-> ofKeys]

\* The room of a collection that has to hold `need` elements: it grows,
\* by doubling at least, only when `need` exceeds it, and never shrinks.
Grow(cap, need) ==
    IF need <= cap THEN cap
    ELSE IF 2 * cap >= need THEN 2 * cap ELSE need

\* storage.push(value) and keys_to_indices.insert(key, handle) of insert
\* allocate when their collection is full; nothing else does.
Reserve ==
    capacity' = Capacity(capacity.requested,
                         Grow(capacity.storage, Len(storage')),
                         Grow(capacity.keys,
                              Cardinality(DOMAIN keys_to_indices')))

\* ------------------------------------------------------------ state
\* HandleMap::new(): three empty collections; no call made, no handle held.
Init ==
    /\ generations = <<>>
    /\ keys_to_indices = <<>>
    /\ storage = <<>>
    /\ capacity = Capacity(0, 0, 0)
    /\ slots = <<>>
    /\ popped = {}
    /\ last = Call("new", None, None, None, "Ok", None, None)

\* with_capacity building generations as vec![0; capacity].
WithCapacityFilled(n) ==
    /\ generations = [i \in 1..n |-> 0]
    /\ keys_to_indices = <<>>
    /\ storage = <<>>
    /\ capacity = Capacity(n, n, n)
    /\ slots = <<>>
    /\ popped = {}
    /\ last = Call("with_capacity", None, None, Some(n), "Ok", None, None)

\* HandleMap::with_capacity(capacity): generations is Vec::new(); the name
\* index and storage are empty with room for `capacity` elements.
WithCapacity(n) ==
    /\ generations = <<>>
    /\ keys_to_indices = <<>>
    /\ storage = <<>>
    /\ capacity = Capacity(n, n, n)
    /\ slots = <<>>
    /\ popped = {}
    /\ last = Call("with_capacity", None, None, Some(n), "Ok", None, None)

\* A map whose index 0 is one bump from the wrap of its counter: after
\* insert("a", v) and GenModulus - 1 calls of replace with v on index 0,
\* each through the handle of the generation of the moment.
InitWrap ==
    \E v \in Values :
        /\ generations = <<GenModulus - 1>>
        /\ keys_to_indices = MapInsert(<<>>, "a", Handle(0, 0))
        /\ storage = <<v>>
        /\ capacity = Capacity(0, Grow(0, Len(<<v>>)), Grow(0, Len(<<v>>)))
        /\ slots = <<Slot("a", Handle(0, 0), v)>>
        /\ popped = {}
        /\ last = Call("replace", None, Some(Handle(0, GenModulus - 2)),
                       Some(v), "Ok", Some(v), None)

\* The capacity asked for: one a run both stays within and exceeds.
Capacities == {MaxLen - 1}

InitCap == \E n \in Capacities : WithCapacity(n)

\* Every handle insert has returned so far: for a value still stored, or
\* for one popped since.
Issued == popped \cup {slots[i].handle : i \in DOMAIN slots}

\* A panic is fatal: it ends the run, and no further call is made on
\* the map.
Running == last.result # "Panic"

\* HandleMap::handle(key): a lookup in the name index, no side effect.
HandleOf(key) ==
    IF key \in DOMAIN keys_to_indices
        THEN Some(keys_to_indices[key])
        ELSE None

Lookup ==
    \E key \in Names :
        /\ Running
        /\ last' = Call("handle", Some(key), None, None,
                        IF HandleOf(key) = None THEN "None" ELSE "Some",
                        None, HandleOf(key))
        /\ UNCHANGED <<generations, keys_to_indices, storage, slots, popped>>

\* HandleMap::insert(key, value): bump_gen comes first, so a panic in it
\* leaves the map as it was.
Insert ==
    \E key \in Names, value \in Values :
        LET index == Len(storage)
            h == InsertHandle(index)
        IN  /\ Running
            /\ index < MaxLen
            /\ BumpWithinBound(index)
            /\ \E outcome \in BumpOutcomes(index) :
                 IF outcome = "Panic"
                    THEN /\ last' = Call("insert", Some(key), None, None,
                                         "Panic", None, None)
                         /\ UNCHANGED <<generations, keys_to_indices,
                                        storage, slots, popped>>
                    ELSE /\ generations' = BumpGen(index)
                         /\ storage' = Append(storage, value)
                         /\ keys_to_indices' =
                                MapInsert(keys_to_indices, key, h)
                         /\ slots' = Append(slots, Slot(key, h, value))
                         /\ UNCHANGED popped
                         /\ last' = Call("insert", Some(key), None,
                                         Some(value), "Ok", None, Some(h))

\* The scan of pop() with `<=` for `==`: any entry up to the freed index.
PopMatchesAtMost(index) ==
    {n \in DOMAIN keys_to_indices : keys_to_indices[n].index <= index}

\* The scan of pop() comparing whole handles with the slot's current one:
\* an entry whose generation is out of date is not found.
PopMatchesCurrent(index) ==
    {n \in DOMAIN keys_to_indices :
        keys_to_indices[n] = Handle(index, generations[index + 1])}

\* The entries the scan of pop() can stop at for the freed index.
PopMatches(index) ==
    {n \in DOMAIN keys_to_indices : keys_to_indices[n].index = index}

\* pop() that unwraps storage.pop(): an empty storage panics.
PopEmptyUnwrapped ==
    /\ last' = Call("pop", None, None, None, "Panic", None, None)
    /\ UNCHANGED <<generations, keys_to_indices, storage, slots, popped>>

\* The else branch of pop(): storage.pop() gave None, and so does pop().
PopEmpty ==
    /\ last' = Call("pop", None, None, None, "None", None, None)
    /\ UNCHANGED <<generations, keys_to_indices, storage, slots, popped>>

\* HandleMap::pop(): None on an empty storage; otherwise the last value is
\* removed first, then the name-index entry of the freed index is looked
\* for (in hash-map iteration order) and removed; expect() panics when
\* there is none.
Pop ==
  /\ Running
  /\
    IF storage = <<>>
        THEN PopEmpty
        ELSE LET value == Last(storage)
                 index == Len(storage) - 1
             IN  /\ storage' = Front(storage)
                 /\ slots' = Front(slots)
                 /\ popped' = popped \cup {Last(slots).handle}
                 /\ UNCHANGED generations
                 /\ IF PopMatches(index) = {}
                        THEN /\ UNCHANGED keys_to_indices
                             /\ last' = Call("pop", None, None, None,
                                             "Panic", None, None)
                        ELSE \E key \in PopMatches(index) :
                                /\ keys_to_indices' =
                                       MapRemove(keys_to_indices, key)
                                /\ last' = Call("pop", None, None, None,
                                                "Some", Some(value), None)

\* HandleMap::replace(index, value): the value is swapped in before
\* bump_gen, so a panic in bump_gen comes after the write.
Replace ==
    \E h \in Handles, value \in Values :
      /\ Running
      /\
        IF AccessOk(h)
            THEN /\ BumpWithinBound(h.index)
                 /\ storage' = WriteSlot(storage, h.index, value)
                 /\ slots' = [slots EXCEPT ![h.index + 1].value = value]
                 /\ UNCHANGED <<keys_to_indices, popped>>
                 /\ \E outcome \in BumpOutcomes(h.index) :
                      IF outcome = "Panic"
                         THEN /\ UNCHANGED generations
                              /\ last' = Call("replace", None, Some(h),
                                              None, "Panic", None, None)
                         ELSE /\ generations' = BumpGen(h.index)
                              /\ last' = Call("replace", None, Some(h),
                                              Some(value), "Ok",
                                              Some(ReplacedValue(h, value)),
                                              None)
            ELSE /\ last' = Call("replace", None, Some(h), None,
                                 "Panic", None, None)
                 /\ UNCHANGED <<generations, keys_to_indices, storage,
                                slots, popped>>

\* Index<Handle>::index: map[handle].
IndexRead ==
    \E h \in Handles :
        /\ Running
        /\ last' = IF AccessOk(h)
                       THEN Call("index", None, Some(h), None, "Ok",
                                 Some(storage[h.index + 1]), None)
                       ELSE Call("index", None, Some(h), None, "Panic",
                                 None, None)
        /\ UNCHANGED <<generations, keys_to_indices, storage, slots, popped>>

\* IndexMut<Handle>::index_mut followed by the caller's write:
\* map[handle] = value.
IndexMut ==
    \E h \in Handles, value \in Values :
      /\ Running
      /\
        IF AccessOk(h)
            THEN /\ storage' = WriteSlot(storage, h.index, value)
                 /\ slots' = [slots EXCEPT ![h.index + 1].value = value]
                 /\ last' = Call("index_mut", None, Some(h), Some(value),
                                 "Ok", None, None)
                 /\ UNCHANGED <<generations, keys_to_indices, popped>>
            ELSE /\ last' = Call("index_mut", None, Some(h), None,
                                 "Panic", None, None)
                 /\ UNCHANGED <<generations, keys_to_indices, storage,
                                slots, popped>>

Next ==
    \/ Lookup /\ UNCHANGED capacity
    \/ Insert /\ Reserve
    \/ Pop /\ UNCHANGED capacity
    \/ Replace /\ UNCHANGED capacity
    \/ IndexRead /\ UNCHANGED capacity
    \/ IndexMut /\ UNCHANGED capacity

Spec == Init /\ [][Next]_vars

\* The same calls on a map about to wrap a generation counter.
SpecWrap == InitWrap /\ [][Next]_vars

\* The same calls on a map built by with_capacity.
SpecCap == InitCap /\ [][Next]_vars

\* The runs in which replace is never called.
NextNoReplace ==
    \/ Lookup /\ UNCHANGED capacity
    \/ Insert /\ Reserve
    \/ Pop /\ UNCHANGED capacity
    \/ IndexRead /\ UNCHANGED capacity
    \/ IndexMut /\ UNCHANGED capacity

SpecNoReplace == Init /\ [][NextNoReplace]_vars

\* ------------------------------------------------------------ Handle
\* Ord::cmp of two unsigned integers.
CmpNat(a, b) ==
    IF a < b THEN "Less" ELSE IF a = b THEN "Equal" ELSE "Greater"

\* A derive(Ord) over the fields in the order generation, index.
HandleCmpGenerationFirst(h1, h2) ==
    IF CmpNat(h1.generation, h2.generation) # "Equal"
        THEN CmpNat(h1.generation, h2.generation)
        ELSE CmpNat(h1.index, h2.index)

\* #[derive(Ord, PartialOrd)] on Handle: the fields are compared in the
\* order they are declared, index and then generation; the first that
\* differs decides.
HandleCmp(h1, h2) ==
    IF CmpNat(h1.index, h2.index) # "Equal"
        THEN CmpNat(h1.index, h2.index)
        ELSE CmpNat(h1.generation, h2.generation)

\* #[derive(PartialEq, Eq)] on Handle: every field is equal.
HandleEq(h1, h2) ==
    /\ h1.index = h2.index
    /\ h1.generation = h2.generation

\* h1.cmp(&h2) for two handles the caller holds.
Compare ==
    \E h1 \in Handles, h2 \in Handles :
        /\ Running
        /\ last' = Call("cmp", None, <<h1, h2>>, None,
                        HandleCmp(h1, h2), None, None)
        /\ UNCHANGED <<generations, keys_to_indices, storage, slots, popped>>

\* h1 == h2 for two handles the caller holds.
Equals ==
    \E h1 \in Handles, h2 \in Handles :
        /\ Running
        /\ last' = Call("eq", None, <<h1, h2>>, None,
                        IF HandleEq(h1, h2) THEN "True" ELSE "False",
                        None, None)
        /\ UNCHANGED <<generations, keys_to_indices, storage, slots, popped>>

\* The comparisons of handles: they need no store.
NextOrder ==
    \/ Compare /\ UNCHANGED capacity
    \/ Equals /\ UNCHANGED capacity

SpecOrder == Init /\ [][NextOrder]_vars

\* ------------------------------------------------------------ claims
\* The spec's definition of an alive handle {i, g}:
\* i < len(storage) && generations[i] == g.
IsAlive(h) ==
    /\ h.index < Len(storage)
    /\ h.index < Len(generations)
    /\ generations[h.index + 1] = h.generation

AccessOps == {"index", "index_mut", "replace"}

\* C1: in every reachable state the code lets a handle through (index,
\* index_mut, replace) exactly when it is alive by the spec's definition,
\* for every handle, issued or not; and every such call made returns Ok
\* iff its handle was alive when it was made, and otherwise panics
\* without returning a value.
C1_AccessIffAlive ==
    /\ [](\A h \in Handles : AccessOk(h) <=> IsAlive(h))
    /\ [][\A h \in Handles :
            (last'.op \in AccessOps /\ last'.handle = Some(h)) =>
                /\ (last'.result = "Ok") <=> IsAlive(h)
                /\ (last'.result = "Panic") <=> ~IsAlive(h)
                /\ (last'.result = "Panic") => last'.retVal = None]_vars

\* C1 witness: a replace through a handle of a popped slot whose stored
\* generation still equals the handle's has panicked.
C1_Witness ==
    /\ last.op = "replace"
    /\ last.result = "Panic"
    /\ LET h == last.handle[1]
       IN  /\ h.index < Len(generations)
           /\ generations[h.index + 1] = h.generation
           /\ h.index >= Len(storage)

\* C2: once an index holds a value again, every handle that insert had
\* issued for a value since popped from that index is refused by every
\* access (within the bound on bumps).
C2_OldHandlesDead ==
    \A h \in popped : h.index < Len(storage) => ~AccessOk(h)

\* C2 witness: an index was popped and filled again, and a read through
\* the handle issued for the earlier occupant has panicked.
C2_Witness ==
    /\ last.op = "index"
    /\ last.result = "Panic"
    /\ LET h == last.handle[1]
       IN  /\ h \in popped
           /\ h.index < Len(storage)
           /\ slots[h.index + 1].handle.index = h.index

\* C3: an insert under a name that was not in the name index leaves a
\* state in which handle(name) returns the handle insert returned and a
\* read through it is let through and yields the inserted value.
C3_RoundTrip ==
    [][\A key \in Names, h \in Handles :
          (/\ last'.op = "insert"
           /\ last'.key = Some(key)
           /\ last'.retHandle = Some(h)
           /\ key \notin DOMAIN keys_to_indices) =>
              /\ HandleOf(key)' = Some(h)
              /\ AccessOk(h)'
              /\ storage'[h.index + 1] = last'.value[1]]_vars

\* C3 witness: a name new to a non-empty name index was inserted.
C3_Witness ==
    /\ last.op = "insert"
    /\ Len(storage) = 2
    /\ slots[1].key # slots[2].key
    /\ HandleOf(last.key[1]) = last.retHandle

\* The names of the stored values are pairwise distinct.
DistinctNames ==
    \A i, j \in DOMAIN slots : i # j => slots[i].key # slots[j].key

\* C4: with pairwise distinct names, a pop that returns the value inserted
\* under B with handle HB leaves HB refused by every access and B out of
\* the name index; the other names map as before and every handle of
\* another index is let through or refused as before.
C4_StaleAfterPop ==
    [][\A B \in Names, HB \in Handles :
          (/\ last'.op = "pop"
           /\ last'.result = "Some"
           /\ DistinctNames
           /\ slots[Len(slots)].key = B
           /\ slots[Len(slots)].handle = HB) =>
              /\ ~AccessOk(HB)'
              /\ HandleOf(B)' = None
              /\ \A n \in Names \ {B} : HandleOf(n)' = HandleOf(n)
              /\ \A h \in Handles :
                    h.index # HB.index => (AccessOk(h)' <=> AccessOk(h))]_vars

\* C4 witness: A and B were inserted, B was popped; A is still looked
\* up and let through.
C4_Witness ==
    /\ last.op = "pop"
    /\ last.result = "Some"
    /\ Len(storage) = 1
    /\ HandleOf(slots[1].key) = Some(slots[1].handle)
    /\ AccessOk(slots[1].handle)
    /\ \E h \in Issued : h.index = 1 /\ ~AccessOk(h)

\* C5: a replace through an alive handle H returns the value that was at
\* H.index, keeps len(storage), stores the new value at H.index, and adds
\* one to generations[H.index], after which H and every handle issued for
\* that index are refused.
C5_ReplaceInvalidates ==
    [][\A h \in Handles :
          (last'.op = "replace" /\ last'.result = "Ok"
              /\ last'.handle = Some(h)) =>
          LET i == h.index
          IN  /\ last'.retVal = Some(storage[i + 1])
              /\ Len(storage') = Len(storage)
              /\ storage'[i + 1] = last'.value[1]
              /\ generations'[i + 1] = generations[i + 1] + 1
              /\ ~AccessOk(h)'
              /\ \A g \in Issued : g.index = i => ~AccessOk(g)']_vars

\* C5 witness: a replace has swapped a value for a different one.
C5_Witness ==
    /\ last.op = "replace"
    /\ last.result = "Ok"
    /\ last.retVal # last.value
    /\ last.handle[1] \in Issued

\* C6: pop() never ends in its "No such key" panic.
C6_PopNeverPanics ==
    ~(last.op = "pop" /\ last.result = "Panic")

\* C7: a pop that returns Some(v) leaves storage one shorter, and v is
\* the value its inserter last gave the top slot (by insert, replace or
\* index_mut).
C7_StackDiscipline ==
    [][(last'.op = "pop" /\ last'.result = "Some") =>
          /\ Len(storage') = Len(storage) - 1
          /\ last'.retVal = Some(slots[Len(slots)].value)
          /\ storage' = SubSeq(storage, 1, Len(storage) - 1)]_vars

\* C7 witness: a pop took the top of two values and returned a value
\* other than the one left below it.
C7_Witness ==
    /\ last.op = "pop"
    /\ last.result = "Some"
    /\ Len(storage) = 1
    /\ last.retVal # Some(storage[1])

C9_NameIndexAlive ==
    \A n \in DOMAIN keys_to_indices :
        LET h == keys_to_indices[n]
        IN  /\ AccessOk(h)
            /\ slots[h.index + 1].key = n
            /\ slots[h.index + 1].handle = h
            /\ storage[h.index + 1] = slots[h.index + 1].value

\* C9 witness: two names are in the index, one on a reused index, and a
\* value was just written in place through the handle of a name.
C9_Witness ==
    /\ last.op = "index_mut"
    /\ last.result = "Ok"
    /\ Cardinality(DOMAIN keys_to_indices) = 2
    /\ \E n \in DOMAIN keys_to_indices :
          /\ Some(keys_to_indices[n]) = last.handle
          /\ keys_to_indices[n].generation = 1

\* C10: a replace through H leaves the name index as it was: a name that
\* mapped to H maps to H still, and H is now refused; and a pop of a slot
\* whose name maps to a refused handle returns Some and removes the name.
C10_ReplaceKeepsNameIndex ==
    [][\A n \in Names, h \in Handles :
          /\ (/\ last'.op = "replace"
               /\ last'.result = "Ok"
               /\ last'.handle = Some(h)) =>
                  /\ keys_to_indices' = keys_to_indices
                  /\ HandleOf(n) = Some(h) =>
                        (HandleOf(n)' = Some(h) /\ ~AccessOk(h)')
          /\ (/\ last'.op = "pop"
               /\ storage # <<>>
               /\ HandleOf(n) = Some(h)
               /\ h.index = Len(storage) - 1
               /\ ~AccessOk(h)) =>
                  /\ last'.result = "Some"
                  /\ HandleOf(n)' = None]_vars

\* C10 witness: a slot was replaced after its insert (its generation is
\* past every handle issued for it) and has just been popped, which
\* emptied the name index.
C10_Witness ==
    /\ last.op = "pop"
    /\ last.result = "Some"
    /\ Len(generations) > Len(storage)
    /\ \A h \in Issued :
          h.index = Len(storage) => h.generation < generations[Len(storage) + 1]
    /\ DOMAIN keys_to_indices = {}

\* C11: a pop on an empty storage returns None, does not panic, and
\* leaves storage, generations and the name index as they were.
C11_EmptyPop ==
    [][(last'.op = "pop" /\ storage = <<>>) =>
          /\ last'.result = "None"
          /\ last'.retVal = None
          /\ UNCHANGED <<storage, generations, keys_to_indices>>]_vars

\* C11 witness: a container emptied by earlier pops was popped again.
C11_Witness ==
    /\ last.op = "pop"
    /\ last.result = "None"
    /\ storage = <<>>
    /\ Len(generations) = 2
    /\ popped # {}

\* C14: generations is never shorter than storage, and no step makes
\* generations shorter.
C14_GenerationsCoverStorage ==
    /\ [](Len(generations) >= Len(storage))
    /\ [][Len(generations') >= Len(generations)]_vars

\* C14 witness: after a pop generations is longer than storage.
C14_Witness ==
    /\ last.op = "pop"
    /\ last.result = "Some"
    /\ Len(generations) = 2
    /\ Len(storage) = 1

\* C15: a pop that returns Some leaves generations as it was, keeps every
\* value below the top, removes exactly one name-index entry and changes
\* no other, and every handle let through for a slot below the top is
\* let through still.
C15_PopFrame ==
    [][(last'.op = "pop" /\ last'.result = "Some") =>
          /\ generations' = generations
          /\ Len(storage') = Len(storage) - 1
          /\ \A i \in 1..(Len(storage) - 1) : storage'[i] = storage[i]
          /\ Cardinality(DOMAIN keys_to_indices') =
                 Cardinality(DOMAIN keys_to_indices) - 1
          /\ \A n \in DOMAIN keys_to_indices' :
                /\ n \in DOMAIN keys_to_indices
                /\ keys_to_indices'[n] = keys_to_indices[n]
          /\ \A h \in Handles :
                (h.index < Len(storage) - 1 /\ AccessOk(h)) =>
                    AccessOk(h)']_vars

\* C15 witness: the top of two named values was popped; the one below
\* keeps its name and its handle is let through.
C15_Witness ==
    /\ last.op = "pop"
    /\ last.result = "Some"
    /\ Len(storage) = 1
    /\ Len(generations) = 2
    /\ Cardinality(DOMAIN keys_to_indices) = 1
    /\ \E n \in DOMAIN keys_to_indices : AccessOk(keys_to_indices[n])

\* C16: a write through index_mut with an alive handle changes the value
\* of that one slot only: generations, the name index, the length and
\* the other values are as before, the slot holds the written value, and
\* every handle is let through or refused as before, the one used
\* being let through.
C16_IndexMutFrame ==
    [][\A h \in Handles :
          (/\ last'.op = "index_mut"
           /\ last'.result = "Ok"
           /\ last'.handle = Some(h)) =>
              /\ generations' = generations
              /\ keys_to_indices' = keys_to_indices
              /\ Len(storage') = Len(storage)
              /\ \A i \in 1..Len(storage) :
                    i # h.index + 1 => storage'[i] = storage[i]
              /\ Some(storage'[h.index + 1]) = last'.value
              /\ AccessOk(h)'
              /\ \A g \in Handles : AccessOk(g) <=> AccessOk(g)']_vars

\* C16 witness: the upper of two values was overwritten in place with a
\* value other than the lower one.
C16_Witness ==
    /\ last.op = "index_mut"
    /\ last.result = "Ok"
    /\ Len(storage) = 2
    /\ last.handle[1].index = 1
    /\ last.value = Some(storage[2])
    /\ storage[1] # storage[2]
    /\ AccessOk(last.handle[1])

\* C18: every handle in the name index has an index below len(storage),
\* no two names map to handles of the same index, and so the scan of
\* pop() has at most one entry to stop at, whatever the index.
C18_NameIndexInjective ==
    /\ \A n \in DOMAIN keys_to_indices :
          keys_to_indices[n].index < Len(storage)
    /\ \A n, m \in DOMAIN keys_to_indices :
          n # m => keys_to_indices[n].index # keys_to_indices[m].index
    /\ \A i \in 0..MaxLen : Cardinality(PopMatches(i)) <= 1

\* C18 witness: one name was inserted twice and the second value was
\* replaced; the name index holds the one, now refused, handle.
C18_Witness ==
    /\ Len(storage) = 2
    /\ slots[1].key = slots[2].key
    /\ generations[2] # slots[2].handle.generation
    /\ HandleOf(slots[2].key) = Some(slots[2].handle)
    /\ PopMatches(1) = {slots[2].key}
    /\ PopMatches(0) = {}

\* C19: a replace through a handle that is not alive (generation
\* mismatch, popped slot, index never allocated) panics, returns no
\* value, and leaves storage, generations and the name index as they
\* were.
C19_DeadReplaceNoEffect ==
    [][\A h \in Handles :
          (/\ last'.op = "replace"
           /\ last'.handle = Some(h)
           /\ ~IsAlive(h)) =>
              /\ last'.result = "Panic"
              /\ last'.retVal = None
              /\ UNCHANGED <<storage, generations, keys_to_indices>>]_vars

\* C19 witness: a replace through a handle one generation behind its
\* occupied slot has panicked, the generation staying where it was.
C19_Witness ==
    /\ last.op = "replace"
    /\ last.result = "Panic"
    /\ LET h == last.handle[1]
       IN  /\ h.index < Len(storage)
           /\ generations[h.index + 1] = h.generation + 1
           /\ h \in Issued

\* The handles the public API has handed out: by insert, or by
\* handle(name) from the name index.
HandedOut == Issued \cup {keys_to_indices[n] : n \in DOMAIN keys_to_indices}

\* Index i holds a value that no handed-out handle is let through to.
Orphaned(i) ==
    /\ i < Len(storage)
    /\ \A h \in HandedOut : h.index = i => ~AccessOk(h)

\* C20: handle(name) only returns handles insert has returned; a replace
\* on index i leaves no handed-out handle let through to index i, and
\* that stays so for as long as slot i is not popped (within the bound
\* on bumps).
C20_ReplacedValueUnreachable ==
    /\ [](\A n \in DOMAIN keys_to_indices : keys_to_indices[n] \in Issued)
    /\ [][\A i \in 0..(MaxLen - 1) :
            (/\ \/ /\ last'.op = "replace"
                    /\ last'.result = "Ok"
                    /\ last'.handle[1].index = i
                 \/ Orphaned(i)
             /\ i < Len(storage')) =>
                Orphaned(i)']_vars

\* C20 witness: a name's value was replaced, and a read through the
\* handle the name index gives for it has panicked, the slot still
\* holding the replaced-in value.
C20_Witness ==
    /\ last.op = "index"
    /\ last.result = "Panic"
    /\ LET h == last.handle[1]
       IN  /\ \E n \in Names : HandleOf(n) = Some(h)
           /\ Orphaned(h.index)
           /\ slots[h.index + 1].handle = h
           /\ generations[h.index + 1] = h.generation + 1

\* (index, generation) of h1 comes before that of h2, lexicographically.
LexLess(h1, h2) ==
    \/ h1.index < h2.index
    \/ /\ h1.index = h2.index
       /\ h1.generation < h2.generation

\* C12: handles are totally ordered lexicographically by (index,
\* generation): cmp gives Less exactly when h1 is lexicographically
\* before h2, Greater exactly when h2 is before h1, Equal exactly when
\* both fields are equal; and == holds exactly when both fields are equal.
C12_HandleOrder ==
    \A h1 \in Handles, h2 \in Handles :
        last.handle = <<h1, h2>> =>
            /\ last.op = "cmp" =>
                  /\ last.result \in {"Less", "Equal", "Greater"}
                  /\ last.result = "Less" <=> LexLess(h1, h2)
                  /\ last.result = "Greater" <=> LexLess(h2, h1)
                  /\ last.result = "Equal" <=>
                         (h1.index = h2.index /\
                          h1.generation = h2.generation)
            /\ last.op = "eq" =>
                  (last.result = "True" <=>
                         (h1.index = h2.index /\
                          h1.generation = h2.generation))

\* C12 witness: a handle of a lower index and a higher generation was
\* compared with one of a higher index and a lower generation.
C12_Witness ==
    /\ last.op = "cmp"
    /\ last.handle = <<Handle(0, 1), Handle(1, 0)>>
    /\ last.result = "Less"

C17_GenerationWraps ==
    [][\A i \in DOMAIN generations :
          (/\ generations[i] = GenModulus - 1
           /\ \/ /\ last'.op = "insert"
                 /\ Len(storage) = i - 1
              \/ /\ last'.op = "replace"
                 /\ last'.handle = Some(Handle(i - 1, GenModulus - 1))
                 /\ i <= Len(storage)) =>
              /\ last'.result = "Ok"
              /\ generations'[i] = 0
              /\ i <= Len(storage')
              /\ Handle(i - 1, 0) \in Issued =>
                    (IsAlive(Handle(i - 1, 0)))']_vars

====
